---- MODULE Spec2Model ----
(***************************************************************************)
(* Model of the tree-sitter C/C++ frontend of fuzz-introspector            *)
(* (src/fuzz_introspector/frontends/frontend_c_cpp.py): source units,      *)
(* FunctionDefinition objects, the module-level function-node cache and    *)
(* the CppProject operations generate_report, extract_calltree and         *)
(* get_reachable_functions.                                                *)
(*                                                                         *)
(* Strings that the code compares, splits or suffix-matches (function      *)
(* names, call targets, scopes) are sequences of tokens: one token per     *)
(* character of an identifier and the token "::" for the scope separator,  *)
(* so that str.endswith, str.startswith, str.split('::') and               *)
(* str.rsplit('::', 1) are computed on the text and not on whole names.    *)
(***************************************************************************)
EXTENDS Integers, Sequences, FiniteSets, TLC

VARIABLES
    source_code_files,    \* project -> sequence of CppSourceCodeFile
    all_functions,        \* project -> sequence of references to FunctionDefinition
    internal_func_list,   \* project -> the per-function records kept by the project
    report,               \* project -> report['All functions']['Elements']
    function_node_cache,  \* the module-level _function_node_cache
    last                  \* the last operation, its path and what it returned

vars == <<source_code_files, all_functions, internal_func_list, report,
          function_node_cache, last>>

(***************************************************************************)
(* Bounds of the inputs.                                                   *)
(***************************************************************************)
\* calls in the body of a function of the call-graph inputs
MaxCalls == 2
\* nodes below the root in the syntax tree of a function of the tree inputs
MaxNodes == 3

\* functions in the first unit of the name inputs
MaxFuncs == 2

\* branches (#if, #elif, #else) of a conditional of the macro inputs
MaxBranches == 2

\* source lines between two directives of a conditional
MaxLines == 2

Projects == {"A", "B"}

(***************************************************************************)
(* Text.                                                                   *)
(***************************************************************************)
SEP == "::"
EmptyStr == << >>

Max(a, b) == IF a >= b THEN a ELSE b

\* str.endswith
EndsWith(s, suffix) ==
    /\ Len(suffix) <= Len(s)
    /\ SubSeq(s, Len(s) - Len(suffix) + 1, Len(s)) = suffix

\* str.startswith
StartsWith(s, prefix) ==
    /\ Len(prefix) <= Len(s)
    /\ SubSeq(s, 1, Len(prefix)) = prefix

\* '::' in s
HasSep(s) == \E i \in 1..Len(s) : s[i] = SEP

\* the positions of '::' in s
SepPositions(s) == {i \in 1..Len(s) : s[i] = SEP}

\* position of the k-th '::' of s (k >= 1)
NthSep(s, k) ==
    CHOOSE i \in SepPositions(s) :
        Cardinality({j \in SepPositions(s) : j <= i}) = k

\* len(s.split('::'))
SplitLen(s) == Cardinality(SepPositions(s)) + 1

\* '::'.join(s.split('::')[count:])
JoinFrom(s, count) ==
    IF count = 0 THEN s
    ELSE SubSeq(s, NthSep(s, count) + 1, Len(s))

\* '::'.join(s.split('::', 1)[count:]), count in {0, 1}
JoinFromOneLayer(s, count) ==
    IF count = 0 THEN s
    ELSE SubSeq(s, NthSep(s, 1) + 1, Len(s))

\* s.split('::')[-1]
LastPart(s) ==
    IF HasSep(s) THEN JoinFrom(s, SplitLen(s) - 1) ELSE s

\* s.rsplit('::', 1)[0], for s holding '::'
RSplitHead(s) == SubSeq(s, 1, NthSep(s, SplitLen(s) - 1) - 1)

\* a + '::' + b
Scoped(a, b) == a \o <<SEP>> \o b

(***************************************************************************)
(* Syntax trees.  A function node (function_definition or                  *)
(* preproc_function_def) is a record; `nodes` are the nodes below it, each *)
(* with the index of its parent (0: the function node itself); siblings    *)
(* are ordered by index.  Only what the frontend reads of a node is kept:  *)
(*   type    node.type                                                     *)
(*   ftype   call_expression: type of the 'function' child;                *)
(*           declaration: type of the 'type' child                         *)
(*   text    call_expression: text of the 'function' child;                *)
(*           new_expression: text of the 'type' child;                     *)
(*           declaration: the type text put together at lines 934-953      *)
(*   name    call_expression: text of the 'name' child of the function     *)
(*           child (of its 'field' child for a field_expression)           *)
(*   arg     field_expression call: type of the 'argument' child;          *)
(*           declaration: type of the 'declarator' child                   *)
(*   var     field_expression call: text of the 'argument' child;          *)
(*           declaration: text of the declared identifier                  *)
(***************************************************************************)
NoText == EmptyStr

Node(type, parent) ==
    [type |-> type, parent |-> parent, ftype |-> "none", text |-> NoText,
     name |-> NoText, arg |-> "none", var |-> NoText]

CallNode(parent, ftype, text, name) ==
    [type |-> "call_expression", parent |-> parent, ftype |-> ftype,
     text |-> text, name |-> name, arg |-> "none", var |-> NoText]

FieldCallNode(parent, field, arg, var) ==
    [type |-> "call_expression", parent |-> parent,
     ftype |-> "field_expression", text |-> NoText, name |-> field,
     arg |-> arg, var |-> var]

NewNode(parent, text) ==
    [type |-> "new_expression", parent |-> parent, ftype |-> "none",
     text |-> text, name |-> NoText, arg |-> "none", var |-> NoText]

DeclNode(parent, ftype, text, declarator, var) ==
    [type |-> "declaration", parent |-> parent, ftype |-> ftype,
     text |-> text, name |-> NoText, arg |-> declarator, var |-> var]

FunctionNode(type, full_name, nodes) ==
    [type |-> type, full_name |-> full_name, fields_ok |-> TRUE,
     layout |-> "one_line", nodes |-> nodes]

\* node.children, in order
Children(nodes, n) == {i \in 1..Len(nodes) : nodes[i].parent = n}

SetToSortedSeq(S) ==
    CHOOSE s \in [1..Cardinality(S) -> S] :
        /\ \A i \in S : \E k \in 1..Cardinality(S) : s[k] = i
        /\ \A k \in 1..(Cardinality(S) - 1) : s[k] < s[k + 1]

ChildSeq(nodes, n) == SetToSortedSeq(Children(nodes, n))

TypeOf(root, n) == IF n = 0 THEN root.type ELSE root.nodes[n].type

\* the nodes of the subtree of n (n included)
RECURSIVE Subtree(_, _)
Subtree(nodes, n) ==
    {n} \cup UNION {Subtree(nodes, k) : k \in Children(nodes, n)}

\* the order in which a depth-first walk from n first reaches the nodes
RECURSIVE PreOrder(_, _)
RECURSIVE PreOrderAll(_, _)
PreOrder(nodes, n) == <<n>> \o PreOrderAll(nodes, ChildSeq(nodes, n))
PreOrderAll(nodes, kids) ==
    IF kids = << >> THEN << >>
    ELSE PreOrder(nodes, Head(kids)) \o PreOrderAll(nodes, Tail(kids))

\* position of x in a sequence without repetition
IndexOf(seq, x) == CHOOSE i \in 1..Len(seq) : seq[i] = x

(***************************************************************************)
(* Positions.  The bytes of a function are laid out by the depth-first     *)
(* walk: a node starts when the walk enters it and ends when the walk has  *)
(* left its last descendant.  The 'function' child of a call with a plain  *)
(* name ends before the arguments begin.  `layout` says whether the        *)
(* function is written on one line or one node per line.                   *)
(***************************************************************************)
RECURSIVE Tour(_, _)
RECURSIVE TourAll(_, _)
Tour(nodes, n) ==
    <<<<n, "start">>>> \o TourAll(nodes, ChildSeq(nodes, n)) \o <<<<n, "end">>>>
TourAll(nodes, kids) ==
    IF kids = << >> THEN << >>
    ELSE Tour(nodes, Head(kids)) \o TourAll(nodes, Tail(kids))

StartByte(root, n) == IndexOf(Tour(root.nodes, 0), <<n, "start">>)
\* node.byte_range[1]
EndByte(root, n) == IndexOf(Tour(root.nodes, 0), <<n, "end">>)
\* func.byte_range[1] of the 'function' child of call_expression n
FuncEndByte(root, n) == StartByte(root, n)
\* node.start_point.row + 1
StartLine(root, n) ==
    IF root.layout = "one_line" THEN 1
    ELSE IndexOf(PreOrder(root.nodes, 0), n)

(***************************************************************************)
(* FunctionDefinition: construction and metrics.                           *)
(***************************************************************************)
\* branch_nodes of _process_complexity
BranchNodes ==
    {"if_statement", "switch_statement", "do_statement", "while_statement",
     "for_statement", "for_range_loop", "try_statement", "seh_try_statement",
     "throw_statement", "goto_statement", "co_return_statement",
     "co_yield_statement", "break_statement", "continue_statement",
     "&&", "||"}

\* the node types t of the model with 'statement' in t
StatementTypes ==
    {t \in BranchNodes : t \notin {"for_range_loop", "&&", "||"}}
        \cup {"case_statement", "compound_statement", "expression_statement",
              "return_statement"}

RECURSIVE SumOf(_)
SumOf(pairs) ==
    IF pairs = {} THEN 0
    ELSE LET x == CHOOSE x \in pairs : TRUE
         IN  x[2] + SumOf(pairs \ {x})

\* _traverse_node_complexity / _traverse_node_instr_count: the number of
\* nodes of the subtree of n whose type is in `types`
RECURSIVE TraverseNodeCount(_, _, _)
TraverseNodeCount(root, n, types) ==
    (IF TypeOf(root, n) \in types THEN 1 ELSE 0)
    + SumOf({<<k, TraverseNodeCount(root, k, types)>> :
                k \in Children(root.nodes, n)})

\* a query that matches the children of the function node only
QueryCapturesTopLevel(root, type) ==
    {n \in Children(root.nodes, 0) : TypeOf(root, n) = type}

\* query('( <type> ) @x').captures(self.root): the nodes of that type in
\* the subtree of the function node
QueryCaptures(root, type) ==
    {n \in Subtree(root.nodes, 0) : TypeOf(root, n) = type}

\* _process_complexity: self.complexity += ...
ProcessComplexity(complexity, root) ==
    complexity + TraverseNodeCount(root, 0, BranchNodes)

\* _process_icount: self.icount += ...
ProcessIcount(icount, root) ==
    icount + TraverseNodeCount(root, 0, StatementTypes)

\* _process_bbcount
ProcessBbcount(root) ==
    1 + Cardinality(QueryCaptures(root, "if_statement"))
      + Cardinality(QueryCaptures(root, "case_statement"))

NoVars == [v \in {} |-> EmptyStr]

\* FunctionDefinition.__init__, before _extract_information
NewFunctionDefinition(root, namespace) ==
    [root |-> root, namespace_or_class |-> namespace, valid |-> TRUE,
     name |-> EmptyStr, complexity |-> 0, icount |-> 0, bbcount |-> 0,
     base_callsites |-> << >>, detailed_callsites |-> << >>,
     callsite_offsets |-> << >>, var_map |-> NoVars, depth |-> -1]

\* _extract_information, the macro function case
ExtractMacroInformation(self) ==
    IF ~self.root.fields_ok THEN [self EXCEPT !.valid = FALSE]
    ELSE [self EXCEPT !.name = self.root.full_name,
                      !.complexity = 1, !.icount = 1, !.bbcount = 1]

\* _extract_information, the function_definition case
ExtractFunctionInformation(self) ==
    LET name == self.root.full_name
    IN  [self EXCEPT
            !.name = name,
            !.namespace_or_class =
                IF HasSep(name) THEN RSplitHead(name) ELSE @,
            !.complexity = ProcessComplexity(@, self.root),
            !.icount = ProcessIcount(@, self.root),
            !.bbcount = ProcessBbcount(self.root)]

\* FunctionDefinition(node, lang, source, namespace)
FunctionDefinition(root, namespace) ==
    LET self == NewFunctionDefinition(root, namespace)
    IN  IF root.type = "preproc_function_def"
        THEN ExtractMacroInformation(self)
        ELSE ExtractFunctionInformation(self)

\* A namespace_definition node of a unit: its name (NoText when it has
\* none) and the nodes of its body, in order.
NamespaceNode(name, children) ==
    [type |-> "namespace_definition", name |-> name, children |-> children]

\* _process_function_node: what it appends to func_defs
ProcessFunctionNode(node, namespace) ==
    IF FunctionDefinition(node, namespace).valid
    THEN <<FunctionDefinition(node, namespace)>> ELSE << >>

\* _process_namespace_node, lines 136-152: the namespace inside the node
NewNamespace(node, namespace) ==
    IF node.name = NoText THEN namespace
    ELSE IF namespace = EmptyStr THEN node.name
    ELSE Scoped(namespace, node.name)

\* process_tree over the nodes `children` of a unit or of the body of a
\* namespace: what it appends to func_defs.  A function node gives a
\* FunctionDefinition, kept when valid; a namespace node is processed by
\* _process_namespace_node (line 101), which walks its body with the new
\* namespace, and then, as every child, walked by the recursive call of
\* line 118 with the namespace of its parent.
RECURSIVE ProcessTree(_, _)
ProcessTree(children, namespace) ==
    IF children = << >> THEN << >>
    ELSE (IF Head(children).type = "namespace_definition"
          THEN ProcessTree(Head(children).children,
                           NewNamespace(Head(children), namespace))
                   \o ProcessTree(Head(children).children, namespace)
          ELSE ProcessFunctionNode(Head(children), namespace))
             \o ProcessTree(Tail(children), namespace)

\* A preprocessor conditional is the sequence of its branches: the
\* preproc_ifdef or preproc_if node, then its 'alternative', then the
\* alternative of that, and so on.  `directive` is how the text of a
\* preproc_ifdef begins, `text` its name or the condition of an #if or
\* #elif, and the rows are start_point.row and end_point.row.
MacroBranch(type, directive, text, start_row, end_row) ==
    [type |-> type, directive |-> directive, text |-> text,
     start_row |-> start_row, end_row |-> end_row]

\* lines 359-365: the last condition reversed
ReversedLast(conditions) ==
    IF conditions = << >> THEN conditions
    ELSE [conditions EXCEPT ![Len(conditions)].type =
             IF @ = "ifdef" THEN "ifndef"
             ELSE IF @ = "ifndef" THEN "ifdef"
             ELSE "not"]

\* lines 367-392: the macro is skipped
InvalidMacro(branch) ==
    /\ branch.type \in {"preproc_ifdef", "preproc_if", "preproc_elif"}
    /\ branch.text = NoText

\* lines 367-392: the conditions with that of the branch
WithCondition(conditions, branch) ==
    IF branch.type = "preproc_ifdef"
    THEN Append(conditions,
                [type |-> IF branch.directive = "#ifdef" THEN "ifdef"
                          ELSE "ifndef",
                 condition |-> branch.text])
    ELSE IF branch.type \in {"preproc_if", "preproc_elif"}
    THEN Append(conditions, [type |-> "if", condition |-> branch.text])
    ELSE conditions

\* lines 397-418: the record appended to macro_blocks
MacroBlock(conditions, line_start, line_end) ==
    [conditions |-> conditions,
     pos |-> [line_start |-> line_start, line_end |-> line_end]]

\* CppSourceCodeFile._process_macro_block on the i-th branch of a
\* conditional: the records appended to macro_blocks
RECURSIVE ProcessMacroBlock(_, _, _)
ProcessMacroBlock(macro, i, conditions) ==
    IF InvalidMacro(macro[i]) THEN << >>
    ELSE IF i < Len(macro)
    THEN <<MacroBlock(WithCondition(ReversedLast(conditions), macro[i]),
                      macro[i].start_row, macro[i + 1].start_row)>>
             \o ProcessMacroBlock(macro, i + 1,
                    WithCondition(ReversedLast(conditions), macro[i]))
    ELSE <<MacroBlock(WithCondition(ReversedLast(conditions), macro[i]),
                      macro[i].start_row, macro[i].end_row)>>

\* process_tree, lines 114-115, over the conditionals of a unit
RECURSIVE ProcessMacros(_)
ProcessMacros(macros) ==
    IF macros = << >> THEN << >>
    ELSE ProcessMacroBlock(Head(macros), 1, << >>)
             \o ProcessMacros(Tail(macros))

\* CppSourceCodeFile before and after language_specific_process
SourceCodeFile(children) ==
    [root |-> children, macros |-> << >>, loaded |-> FALSE,
     func_defs |-> << >>, macro_blocks |-> << >>]

LanguageSpecificProcess(file) ==
    [file EXCEPT !.loaded = TRUE,
                 !.func_defs = ProcessTree(file.root, EmptyStr),
                 !.macro_blocks = ProcessMacros(file.macros)]

(***************************************************************************)
(* References and lookups.  A FunctionDefinition object is referred to by  *)
(* <<project, index of its unit, index in the unit's func_defs>>.          *)
(***************************************************************************)
None == << >>

Func(files, ref) == files[ref[1]][ref[2]].func_defs[ref[3]]

Min(S) == CHOOSE x \in S : \A y \in S : x <= y

\* the first element of a list that satisfies a test, as an index; 0: none
FirstIndex(S) == IF S = {} THEN 0 ELSE Min(S)

\* CppSourceCodeFile.get_function_node: the index in func_defs, 0 for None
SourceGetFunctionNode(func_defs, target_function_name, exact) ==
    LET idx == 1..Len(func_defs)
        m1 == FirstIndex({i \in idx :
                 IF func_defs[i].namespace_or_class # EmptyStr
                 THEN Scoped(func_defs[i].namespace_or_class, func_defs[i].name)
                          = target_function_name
                 ELSE func_defs[i].name = target_function_name})
        m2 == FirstIndex({i \in idx : func_defs[i].name = target_function_name})
        m3 == FirstIndex({i \in idx :
                 func_defs[i].name = LastPart(target_function_name)})
    IN  IF m1 # 0 THEN m1
        ELSE IF exact THEN 0
        ELSE IF m2 # 0 THEN m2
        ELSE m3

\* one pass of _find_source_with_func_def: the units with a match
SourcesWithTarget(units, name, exact) ==
    {k \in 1..Len(units) :
        SourceGetFunctionNode(units[k].func_defs, name, exact) # 0}

\* a source lookup that takes the first unit with a match
FindSourceFirstMatch(files, p, name) ==
    LET units == files[p]
        exact == SourcesWithTarget(units, name, TRUE)
        fuzzy == SourcesWithTarget(units, name, FALSE)
    IN  IF exact # {}
        THEN <<p, Min(exact),
               SourceGetFunctionNode(units[Min(exact)].func_defs, name, TRUE)>>
        ELSE IF fuzzy # {}
        THEN <<p, Min(fuzzy),
               SourceGetFunctionNode(units[Min(fuzzy)].func_defs, name, FALSE)>>
        ELSE None

\* CppProject._find_source_with_func_def: <<unit, function>> as a
\* reference, or None
FindSourceWithFuncDef(files, p, name) ==
    LET units == files[p]
        exact == SourcesWithTarget(units, name, TRUE)
        fuzzy == SourcesWithTarget(units, name, FALSE)
        Hit(S, e) ==
            LET k == CHOOSE k \in S : TRUE
            IN  <<p, k, SourceGetFunctionNode(units[k].func_defs, name, e)>>
    IN  IF Cardinality(exact) = 1 THEN Hit(exact, TRUE)
        ELSE IF Cardinality(fuzzy) = 1 THEN Hit(fuzzy, FALSE)
        ELSE None

\* a search by name that takes the first function of the list
GetFirstFunction(files, function_list, function_name) ==
    IF function_list = << >> THEN None ELSE function_list[1]

\* CppProject.get_function_from_name
GetFunctionFromName(files, function_list, function_name) ==
    LET i == FirstIndex({i \in 1..Len(function_list) :
                 Func(files, function_list[i]).name = function_name})
    IN  IF i = 0 THEN None ELSE function_list[i]

\* the suffixes tried by get_function_node, in order
SuffixCount(target_name, one_layer_only) ==
    IF one_layer_only THEN 2 ELSE SplitLen(target_name)

SuffixAt(target_name, one_layer_only, count) ==
    IF one_layer_only THEN JoinFromOneLayer(target_name, count)
    ELSE JoinFrom(target_name, count)

\* a search that goes on to suffix matching for names under std:: and
\* does not try the name qualified by the scope
FindFunctionNodeBySuffixOnly(files, target_name, function_list, one_layer_only, namespace) ==
    LET idx == 1..Len(function_list)
        Name(i) == Func(files, function_list[i]).name
        exact == FirstIndex({i \in idx : target_name = Name(i)})
        counts == 0..(SuffixCount(target_name, one_layer_only) - 1)
        hits == {c \in counts : \E i \in idx :
                    EndsWith(Name(i), SuffixAt(target_name, one_layer_only, c))}
        suffix == IF hits = {} THEN 0
                  ELSE FirstIndex({i \in idx :
                           EndsWith(Name(i),
                               SuffixAt(target_name, one_layer_only, Min(hits)))})
    IN  IF exact # 0 THEN function_list[exact]
        ELSE IF ~HasSep(target_name) THEN None
        ELSE IF suffix # 0 THEN function_list[suffix]
        ELSE None

\* get_function_node past the cache: the function found, or None
FindFunctionNode(files, target_name, function_list, one_layer_only, namespace) ==
    LET idx == 1..Len(function_list)
        Name(i) == Func(files, function_list[i]).name
        exact == FirstIndex({i \in idx : target_name = Name(i)})
        scoped == IF namespace = EmptyStr THEN 0
                  ELSE FirstIndex({i \in idx :
                           Scoped(namespace, target_name) = Name(i)})
        counts == 0..(SuffixCount(target_name, one_layer_only) - 1)
        hits == {c \in counts : \E i \in idx :
                    EndsWith(Name(i), SuffixAt(target_name, one_layer_only, c))}
        suffix == IF hits = {} THEN 0
                  ELSE FirstIndex({i \in idx :
                           EndsWith(Name(i),
                               SuffixAt(target_name, one_layer_only, Min(hits)))})
    IN  IF exact # 0 THEN function_list[exact]
        ELSE IF scoped # 0 THEN function_list[scoped]
        ELSE IF ~HasSep(target_name) THEN None
        ELSE IF StartsWith(target_name, <<"s", "t", "d", SEP>>) THEN None
        ELSE IF suffix # 0 THEN function_list[suffix]
        ELSE None

\* get_function_node, given what the search past the cache finds: what it
\* returns and the context it leaves (the cache, and `returned`, which
\* collects the references handed out)
LookupResult(ctx, cache_key, found) ==
    IF cache_key \in DOMAIN ctx.cache
    THEN [node |-> ctx.cache[cache_key],
          ctx |-> [ctx EXCEPT !.returned = @ \cup {ctx.cache[cache_key]}]]
    ELSE IF found # None
    THEN [node |-> found,
          ctx |-> [cache |-> ctx.cache @@ (cache_key :> found),
                   returned |-> ctx.returned \cup {found}]]
    ELSE [node |-> None, ctx |-> ctx]

\* get_function_node
GetFunctionNode(files, ctx, target_name, function_list, one_layer_only, namespace) ==
    LookupResult(ctx, <<target_name, namespace, one_layer_only>>,
                 FindFunctionNode(files, target_name, function_list,
                                  one_layer_only, namespace))

EmptyCache == [k \in {} |-> None]

(***************************************************************************)
(* Call-site extraction.  `env` is what a FunctionDefinition reads while   *)
(* it extracts: the units (for names), project.all_functions and itself;   *)
(* `st` is what it changes: the call sites found so far as                 *)
(* <<target, byte offset, line>>, its var_map and the lookup context.      *)
(***************************************************************************)
Void == <<"v", "o", "i", "d">>

BodyNode(env, n) == env.self.root.nodes[n]

\* _process_field_expr_return_type, lines 874-888: the type of the object
ObjectType(env, st, node) ==
    IF node.arg = "this" THEN env.self.namespace_or_class
    ELSE IF node.arg \in {"identifier", "qualified_identifier"}
            /\ node.var \in DOMAIN st.var_map
         THEN st.var_map[node.var]
    ELSE EmptyStr

\* _process_field_expr_return_type, lines 890-898, for a known object type
QualifiedFieldName(env, st, node, object_type) ==
    LET full_name == IF object_type # Void
                     THEN Scoped(object_type, node.name) ELSE node.name
    IN  [name |-> full_name,
         ctx |-> GetFunctionNode(env.files, st.ctx, full_name,
                                 env.all_functions, FALSE, EmptyStr).ctx]

\* _process_field_expr_return_type: the second component of its result and
\* the lookup context it leaves
ProcessFieldExprReturnType(env, st, node) ==
    IF node.arg = "none" \/ node.name = NoText
    THEN [name |-> EmptyStr, ctx |-> st.ctx]
    ELSE IF node.arg = "call_expression"
    THEN [name |-> EmptyStr, ctx |-> st.ctx]
    ELSE IF ObjectType(env, st, node) # EmptyStr
    THEN QualifiedFieldName(env, st, node, ObjectType(env, st, node))
    ELSE [name |-> node.name, ctx |-> st.ctx]

\* _process_invoke, lines 815-826: the lookup of the 'name' child
ResolveByNameChild(env, node, second) ==
    [name |-> IF second.node # None
              THEN Func(env.files, second.node).name ELSE node.text,
     ctx |-> second.ctx]

\* _process_invoke, lines 811-826, given the result of the first lookup
ResolveAfterLookup(env, node, first) ==
    IF first.node # None
    THEN [name |-> Func(env.files, first.node).name, ctx |-> first.ctx]
    ELSE IF node.name # NoText
    THEN ResolveByNameChild(env, node,
             GetFunctionNode(env.files, first.ctx, node.name,
                             env.all_functions, FALSE,
                             env.self.namespace_or_class))
    ELSE [name |-> node.text, ctx |-> first.ctx]

\* _process_invoke, lines 801-826: a call by name
ResolveDirectCall(env, st, node) ==
    ResolveAfterLookup(env, node,
        GetFunctionNode(env.files, st.ctx, node.text, env.all_functions,
                        FALSE, env.self.namespace_or_class))

\* _process_invoke, lines 833-841: a name without '::' called inside a
\* scope becomes scope::name when the project has that function
InScopeName(env, target_name) ==
    IF /\ ~HasSep(target_name)
       /\ env.self.namespace_or_class # EmptyStr
       /\ \E i \in 1..Len(env.all_functions) :
              Func(env.files, env.all_functions[i]).name
                  = Scoped(env.self.namespace_or_class, target_name)
    THEN Scoped(env.self.namespace_or_class, target_name)
    ELSE target_name

\* _process_invoke, lines 833-847, given the target name found
RecordInvoke(env, st, n, res) ==
    IF BodyNode(env, n).ftype # "none" /\ res.name # EmptyStr
    THEN [st EXCEPT
            !.ctx = res.ctx,
            !.callsites = Append(@, <<InScopeName(env, res.name),
                                      FuncEndByte(env.self.root, n),
                                      StartLine(env.self.root, n)>>)]
    ELSE [st EXCEPT !.ctx = res.ctx]

\* _process_invoke
ProcessInvoke(env, st, n) ==
    RecordInvoke(env, st, n,
        IF BodyNode(env, n).ftype \in {"identifier", "qualified_identifier",
                                      "template_function"}
           /\ BodyNode(env, n).text # NoText
        THEN ResolveDirectCall(env, st, BodyNode(env, n))
        ELSE IF BodyNode(env, n).ftype = "field_expression"
        THEN ProcessFieldExprReturnType(env, st, BodyNode(env, n))
        ELSE [name |-> EmptyStr, ctx |-> st.ctx])

\* cls = f'{cls}::{cls.rsplit("::")[-1]}'
ConstructorName(cls) == Scoped(cls, LastPart(cls))

\* _process_callsites, the new_expression case
ProcessNew(env, st, n) ==
    IF BodyNode(env, n).text = NoText THEN st
    ELSE [st EXCEPT !.callsites =
             Append(@, <<ConstructorName(BodyNode(env, n).text),
                         EndByte(env.self.root, n),
                         StartLine(env.self.root, n)>>)]

\* _process_callsites, the declaration case
ProcessDeclaration(env, st, n) ==
    LET node == BodyNode(env, n)
        cls == ConstructorName(node.text)
        var_type == IF node.arg = "pointer_declarator"
                    THEN node.text \o <<"*">> ELSE node.text
    IN  IF node.ftype \in {"none", "primitive_type", "sized_type_specifier"}
        THEN st
        ELSE IF node.arg = "none" THEN st
        ELSE [st EXCEPT
                !.callsites =
                    IF /\ node.arg = "identifier"
                       /\ GetFunctionFromName(env.files, env.all_functions,
                                              cls) # None
                    THEN Append(@, <<cls, EndByte(env.self.root, n),
                                     StartLine(env.self.root, n)>>)
                    ELSE @,
                !.var_map =
                    IF node.var = NoText THEN @
                    ELSE [v \in DOMAIN @ \cup {node.var} |->
                             IF v = node.var THEN var_type ELSE @[v]]]

\* _process_callsites
ProcessCallsites(env, st, n) ==
    IF TypeOf(env.self.root, n) = "call_expression"
    THEN ProcessInvoke(env, st, n)
    ELSE IF TypeOf(env.self.root, n) = "new_expression"
    THEN ProcessNew(env, st, n)
    ELSE IF TypeOf(env.self.root, n) = "declaration"
    THEN ProcessDeclaration(env, st, n)
    ELSE st

\* the while loop of extract_callsites: every node once, in the order of
\* the cursor's depth-first walk
RECURSIVE WalkCallsites(_, _, _)
WalkCallsites(env, st, order) ==
    IF order = << >> THEN st
    ELSE WalkCallsites(env, ProcessCallsites(env, st, Head(order)), Tail(order))

SeqToSet(seq) == {seq[i] : i \in 1..Len(seq)}

\* a set of call sites as a list ordered by key x[1], the byte offset; the
\* order of equal keys is the iteration order of the set, which the code
\* does not fix
SortedByOffset(S) ==
    CHOOSE s \in [1..Cardinality(S) -> S] :
        /\ \A x \in S : \E k \in 1..Cardinality(S) : s[k] = x
        /\ \A k \in 1..(Cardinality(S) - 1) : s[k][2] <= s[k + 1][2]

\* the call sites in the order in which the walk found them
UnsortedCallsites(callsites) == callsites

\* line 502: sorted(set(callsites), key=lambda x: x[1])
SortedCallsites(callsites) == SortedByOffset(SeqToSet(callsites))

\* lines 505-508
DetailedCallsites(base_callsites) ==
    [i \in 1..Len(base_callsites) |->
        [Src |-> base_callsites[i][2], Dst |-> base_callsites[i][1]]]

\* a walk that also counts the call sites it found into the complexity
StoreCallsitesAndCount(self, st, callsites) ==
    [self EXCEPT
        !.base_callsites =
            [i \in 1..Len(callsites) |-> <<callsites[i][1], callsites[i][3]>>],
        !.callsite_offsets = [i \in 1..Len(callsites) |-> callsites[i][2]],
        !.var_map = st.var_map,
        !.complexity = @ + Len(callsites)]

\* lines 502-503, given the result of the walk and the sorted list
StoreCallsites(self, st, callsites) ==
    [self EXCEPT
        !.base_callsites =
            [i \in 1..Len(callsites) |-> <<callsites[i][1], callsites[i][3]>>],
        !.callsite_offsets = [i \in 1..Len(callsites) |-> callsites[i][2]],
        !.var_map = st.var_map]

\* lines 469-503, given the result of the walk
WalkedCallsites(self, st) ==
    [self |-> StoreCallsites(self, st, SortedCallsites(st.callsites)),
     ctx |-> st.ctx]

\* lines 505-508 on the result of lines 469-503
WithDetailedCallsites(r) ==
    IF r.self.detailed_callsites # << >> THEN r
    ELSE [r EXCEPT !.self.detailed_callsites =
             DetailedCallsites(r.self.base_callsites)]

\* FunctionDefinition.extract_callsites(project): the function afterwards
\* and the lookup context
ExtractCallsites(files, function_list, self, ctx) ==
    WithDetailedCallsites(
        IF self.base_callsites # << >> THEN [self |-> self, ctx |-> ctx]
        ELSE WalkedCallsites(self,
                 WalkCallsites(
                     [files |-> files, all_functions |-> function_list,
                      self |-> self],
                     [callsites |-> << >>, var_map |-> self.var_map,
                      ctx |-> ctx],
                     PreOrder(self.root.nodes, 0))))

(***************************************************************************)
(* CppProject: uses, depth, call tree, reachable functions.                *)
(***************************************************************************)
SetFunc(files, ref, func) ==
    [files EXCEPT ![ref[1]][ref[2]].func_defs[ref[3]] = func]

\* for func in source_file.func_defs, for source_file in source_code_files
RECURSIVE UnitRefs(_, _, _)
UnitRefs(files, p, k) ==
    IF k > Len(files[p]) THEN << >>
    ELSE [i \in 1..Len(files[p][k].func_defs) |-> <<p, k, i>>]
             \o UnitRefs(files, p, k + 1)

AllRefs(files, p) == UnitRefs(files, p, 1)

\* the test of lines 1265-1271 on one function
CallsTarget(func, target_name) ==
    \E i \in 1..Len(func.base_callsites) :
        \/ func.base_callsites[i][1] = target_name
        \/ EndsWith(func.base_callsites[i][1], target_name)

\* CppProject._calculate_function_uses
CalculateFunctionUses(files, p, target_name) ==
    Cardinality({i \in 1..Len(AllRefs(files, p)) :
                    CallsTarget(Func(files, AllRefs(files, p)[i]), target_name)})

\* _recursive_function_depth.  d is what the recursion changes:
\* function.depth of the functions (in `files`), the `visited` list (only
\* membership is read, so a set) and, within the loop of one function, its
\* local `depth`.
RECURSIVE RecursiveFunctionDepth(_, _, _)
RECURSIVE DepthOverCallsites(_, _, _, _, _)

\* The nesting of a recursion: `level` counts the recursive calls that
\* are active below the first call, `nesting` is the largest level so
\* far.  Entering is the state in which a recursive call begins, Leaving
\* the state after it has returned.
Entering(c) ==
    [c EXCEPT !.level = @ + 1, !.nesting = Max(@, c.level + 1)]

Leaving(c) == [c EXCEPT !.level = @ - 1]

\* lines 1295-1298, given what the recursive call returned
DepthAfterDescent(function, sub, depth) ==
    [Leaving(sub) EXCEPT
        !.depth = depth,
        !.files = SetFunc(sub.files, function,
                          [Func(sub.files, function) EXCEPT !.depth = depth])]

DepthDescended(d, function, sub) ==
    DepthAfterDescent(function, sub, Max(d.depth, sub.depth + 1))

\* a callee on the recursion path contributing nothing
DepthAtCallsiteIgnoringPath(p, d, function, callsite, target) ==
    IF target # None /\ Func(d.files, target).name \in d.visited
    THEN d
    ELSE IF target # None
    THEN DepthDescended(d, function,
                        RecursiveFunctionDepth(p, Entering(d), target))
    ELSE [d EXCEPT !.visited = @ \cup {callsite[1]}]

\* lines 1292-1300: one call site, `target` being what
\* _find_source_with_func_def returned
DepthAtCallsite(p, d, function, callsite, target) ==
    IF target # None /\ Func(d.files, target).name \in d.visited
    THEN [d EXCEPT !.depth = Max(@, 1)]
    ELSE IF target # None
    THEN DepthDescended(d, function,
                        RecursiveFunctionDepth(p, Entering(d), target))
    ELSE [d EXCEPT !.visited = @ \cup {callsite[1]}]

DepthOverCallsites(p, d, function, callsites, i) ==
    IF i > Len(callsites) THEN d
    ELSE DepthOverCallsites(p,
             DepthAtCallsite(p, d, function, callsites[i],
                 FindSourceWithFuncDef(d.files, p, callsites[i][1])),
             function, callsites, i + 1)

\* lines 1282-1302
DepthOfFunction(p, d, function, self) ==
    IF self.depth # -1
    THEN [d EXCEPT !.depth = self.depth]
    ELSE IF Len(self.base_callsites) = 0
    THEN [d EXCEPT !.depth = 0]
    ELSE DepthOverCallsites(p,
             [d EXCEPT !.depth = 0, !.visited = @ \cup {self.name}],
             function, self.base_callsites, 1)

RecursiveFunctionDepth(p, d, function) ==
    DepthOfFunction(p, d, function, Func(d.files, function))

\* CppProject._calculate_function_depth: the depth and the units afterwards
CalculateFunctionDepth(files, p, target_function) ==
    RecursiveFunctionDepth(p,
        [depth |-> 0, files |-> files, visited |-> {}, level |-> 0,
         nesting |-> 0],
        target_function)

\* CppProject.extract_calltree, called with `function`, the shared
\* visited_functions set, depth, line_number and source_file and without
\* source_code.  pr is the project as the call reads it (the units, its
\* name, self.all_functions); c is what the call changes: the lines
\* printed so far, each <<depth, name, source file, line number>>, the
\* visited set and the lookup context.
RECURSIVE ExtractCalltreeFrom(_, _, _, _, _, _)
RECURSIVE CalltreeOverCallsites(_, _, _, _, _, _)

\* lines 1152-1159: the function node and the lookup context, `found`
\* being what _find_source_with_func_def returned
CalltreeFuncNode(pr, c, function, found) ==
    IF found # None
    THEN [node |-> <<pr.p, found[2],
                     SourceGetFunctionNode(pr.files[pr.p][found[2]].func_defs,
                                           function, FALSE)>>,
          ctx |-> c.ctx]
    ELSE GetFunctionNode(pr.files, c.ctx, function, pr.all_functions,
                         FALSE, EmptyStr)

\* lines 1161-1204, with the function node and the source_code of line 1181
\* how deep a rendering that forgets its visited names goes
RevisitLimit == 4

\* a rendering whose visited test applies only from RevisitLimit on
CalltreeLineRevisiting(pr, c, function, depth, source_file, line_number, func_node, source_code) ==
    LET func_name == IF func_node # None THEN Func(pr.files, func_node).name
                     ELSE function
        line_to_print == <<depth, func_name, source_file, line_number>>
    IN  IF (function \in c.visited /\ depth >= RevisitLimit)
            \/ func_node = None \/ source_code = None
        THEN [c EXCEPT !.out = Append(@, line_to_print)]
        ELSE CalltreeOverCallsites(pr,
                 [c EXCEPT !.out = Append(@, line_to_print),
                           !.visited = @ \cup {function}],
                 Func(pr.files, func_node).base_callsites, 1, depth,
                 source_code)

\* lines 1183-1204, given the function node and the source that were found
CalltreeLine(pr, c, function, depth, source_file, line_number, func_node, source_code) ==
    LET func_name == IF func_node # None THEN Func(pr.files, func_node).name
                     ELSE function
        line_to_print == <<depth, func_name, source_file, line_number>>
    IN  IF function \in c.visited \/ func_node = None \/ source_code = None
        THEN [c EXCEPT !.out = Append(@, line_to_print)]
        ELSE CalltreeOverCallsites(pr,
                 [c EXCEPT !.out = Append(@, line_to_print),
                           !.visited = @ \cup {function}],
                 Func(pr.files, func_node).base_callsites, 1, depth,
                 source_code)

\* lines 1147-1181, given the lookups' results
CalltreeAfterLookup(pr, c, function, depth, source_file, line_number, found, looked) ==
    CalltreeLine(pr, [c EXCEPT !.ctx = looked.ctx], function, depth,
                 source_file, line_number, looked.node,
                 IF found # None THEN <<pr.p, found[2]>>
                 ELSE IF looked.node # None
                 THEN <<looked.node[1], looked.node[2]>>
                 ELSE None)

CalltreeAfterSource(pr, c, function, depth, source_file, line_number, found) ==
    CalltreeAfterLookup(pr, c, function, depth, source_file, line_number,
                        found, CalltreeFuncNode(pr, c, function, found))

ExtractCalltreeFrom(pr, c, function, depth, source_file, line_number) ==
    CalltreeAfterSource(pr, c, function, depth, source_file, line_number,
                        FindSourceWithFuncDef(pr.files, pr.p, function))

CalltreeOverCallsites(pr, c, callsites, i, depth, source_code) ==
    IF i > Len(callsites) THEN c
    ELSE CalltreeOverCallsites(pr,
             ExtractCalltreeFrom(pr, c, callsites[i][1], depth + 1,
                                 source_code, callsites[i][2]),
             callsites, i + 1, depth, source_code)

\* CppProject.get_reachable_functions; c is the visited set and the lookup
\* context
RECURSIVE GetReachableFrom(_, _, _)
RECURSIVE ReachableOverCallsites(_, _, _, _)

\* a walk that does not follow the call sites of a resolved function
ReachableWithoutExpansion(pr, c, function, source_code, looked) ==
    [c EXCEPT !.visited = @ \cup {function}, !.ctx = looked.ctx]

\* lines 1242-1256, given the lookups' results
ReachableAfterLookup(pr, c, function, source_code, looked) ==
    IF looked.node = None \/ source_code = None
    THEN [c EXCEPT !.visited = @ \cup {function}, !.ctx = looked.ctx]
    ELSE ReachableOverCallsites(pr,
             [c EXCEPT !.visited = @ \cup {function}, !.ctx = looked.ctx],
             Func(pr.files, looked.node).base_callsites, 1)

GetReachableFrom(pr, c, function) ==
    ReachableAfterLookup(pr, c, function,
        FindSourceWithFuncDef(pr.files, pr.p, function),
        GetFunctionNode(pr.files, c.ctx, function, pr.all_functions,
                        FALSE, EmptyStr))

ReachableOverCallsites(pr, c, callsites, i) ==
    IF i > Len(callsites) THEN c
    ELSE IF callsites[i][1] \in c.visited
    THEN ReachableOverCallsites(pr, c, callsites, i + 1)
    ELSE ReachableOverCallsites(pr,
             Leaving(GetReachableFrom(pr, Entering(c), callsites[i][1])),
             callsites, i + 1)

(***************************************************************************)
(* generate_report.                                                        *)
(***************************************************************************)
\* the func_dict of one function (lines 1083-1109), the fields that are
\* computed
FuncDict(func, func_uses, func_depth) ==
    [functionName |-> func.name,
     CyclomaticComplexity |-> func.complexity,
     ICount |-> func.icount,
     BBCount |-> func.bbcount,
     Callsites |-> func.detailed_callsites,
     functionUses |-> func_uses,
     functionDepth |-> func_depth,
     functionsReached |-> {func.base_callsites[i][1] :
                              i \in 1..Len(func.base_callsites)}]

\* the loop of lines 1060-1112 from the i-th function on; g is the units,
\* the lookup context and func_list
RECURSIVE ProcessAllFunctions(_, _, _, _)

\* lines 1082-1112, given the uses and what the depth calculation returned
AppendFuncDict(g, ref, ctx, func_uses, dep) ==
    [files |-> dep.files, ctx |-> ctx,
     func_list |-> Append(g.func_list,
                      FuncDict(Func(dep.files, ref), func_uses, dep.depth)),
     nesting |-> Max(g.nesting, dep.nesting)]

\* lines 1072-1112, with the units as extract_callsites left them
ProcessAfterExtract(p, g, ref, ctx, files) ==
    AppendFuncDict(g, ref, ctx,
        CalculateFunctionUses(files, p, Func(files, ref).name),
        CalculateFunctionDepth(files, p, ref))

\* lines 1063-1112 for one function, given what extract_callsites did
ProcessFunction(p, g, ref, ext) ==
    ProcessAfterExtract(p, g, ref, ext.ctx, SetFunc(g.files, ref, ext.self))

ProcessAllFunctions(p, function_list, g, i) ==
    IF i > Len(function_list) THEN g
    ELSE ProcessAllFunctions(p, function_list,
             ProcessFunction(p, g, function_list[i],
                 ExtractCallsites(g.files, function_list,
                                  Func(g.files, function_list[i]), g.ctx)),
             i + 1)

(***************************************************************************)
(* Inputs.                                                                 *)
(***************************************************************************)
NameA == <<"a">>
NameB == <<"b">>
NameC == <<"c">>
NameX == <<"x">>
NameF == <<"f">>
TypeT == <<"T">>
VarS == <<"s">>
NameFoo == <<"F", "o", "o">>

\* sequences of at most n elements of S
SeqsUpTo(S, n) == UNION {[1..k -> S] : k \in 0..n}

\* a function whose body is the calls `targets`, in this order
CallingFunction(name, targets) ==
    FunctionNode("function_definition", name,
        [i \in 1..Len(targets) |->
            CallNode(0, "identifier", targets[i], NoText)])

LoadedUnit(children) == LanguageSpecificProcess(SourceCodeFile(children))

\* Call-graph inputs: project A is one unit defining a, b and, in some
\* inputs, c, in this order; a makes up to MaxCalls calls to a, b, c and
\* the undefined x, b and c make at most one call to a, b or c.  Project B
\* is one unit whose only function b calls a, which B does not define.
DefinedTargets == {NameA, NameB, NameC}
CallTargets == DefinedTargets \cup {NameX}

CallGraphUnits ==
    {<<CallingFunction(NameA, ta), CallingFunction(NameB, tb)>> \o rest :
        ta \in SeqsUpTo(CallTargets, MaxCalls),
        tb \in SeqsUpTo(DefinedTargets, 1),
        rest \in {<< >>} \cup {<<CallingFunction(NameC, tc)>> :
                                 tc \in SeqsUpTo(DefinedTargets, 1)}}

CallGraphInputs ==
    {[A |-> <<LoadedUnit(children)>>,
      B |-> <<LoadedUnit(<<CallingFunction(NameB, <<NameA>>)>>)>>] :
        children \in CallGraphUnits}

\* Depth inputs: project A is one unit defining a, b, c and d, in this
\* order; a makes up to MaxCalls calls to b, c and the undefined x, b at
\* most one call to c or d, c at most one call to b or d, and d none.
\* Project B has no unit.
NameD == <<"d">>

DepthInputs ==
    {[A |-> <<LoadedUnit(<<CallingFunction(NameA, ta),
                           CallingFunction(NameB, tb),
                           CallingFunction(NameC, tc),
                           CallingFunction(NameD, << >>)>>)>>,
      B |-> << >>] :
        ta \in SeqsUpTo({NameB, NameC, NameX}, MaxCalls),
        tb \in SeqsUpTo({NameC, NameD}, 1),
        tc \in SeqsUpTo({NameB, NameD}, 1)}

\* Two-unit inputs: the first unit of project A defines a, b and c, in
\* this order; a makes up to MaxCalls calls to b, c and the undefined x,
\* b at most one call to c, and c none.  The second unit is empty or
\* defines b (with or without a call to c) or c once more.  Project B
\* has no unit.
TwoUnitInputs ==
    {[A |-> <<LoadedUnit(<<CallingFunction(NameA, ta),
                           CallingFunction(NameB, tb),
                           CallingFunction(NameC, << >>)>>),
              LoadedUnit(second)>>,
      B |-> << >>] :
        ta \in SeqsUpTo({NameB, NameC, NameX}, MaxCalls),
        tb \in SeqsUpTo({NameC}, 1),
        second \in {<< >>, <<CallingFunction(NameC, << >>)>>}
                      \cup {<<CallingFunction(NameB, t)>> :
                               t \in SeqsUpTo({NameC}, 1)}}

\* Tree inputs: project A is one unit, not yet processed, that defines f,
\* b and the constructor T::T; the body of f is any tree of at most
\* MaxNodes nodes of the kinds below, numbered in the order of the text
\* and nested as the grammar allows, written on one line or one node per
\* line.  Project B has no unit.
RECURSIVE AncestorsOrSelf(_, _)
AncestorsOrSelf(parent, j) ==
    IF j = 0 THEN {0} ELSE {j} \cup AncestorsOrSelf(parent, parent[j])

TreeShapes(n) ==
    {parent \in [1..n -> 0..n] :
        \A i \in 1..n : parent[i] \in AncestorsOrSelf(parent, i - 1)}

NodeKinds == {"if_statement", "case_statement", "while_statement",
              "call_expression", "new_expression", "declaration"}

NodeOfKind(kind, parent) ==
    IF kind = "call_expression" THEN CallNode(parent, "identifier", NameB, NoText)
    ELSE IF kind = "new_expression" THEN NewNode(parent, TypeT)
    ELSE IF kind = "declaration"
    THEN DeclNode(parent, "type_identifier", TypeT, "identifier", VarS)
    ELSE Node(kind, parent)

\* the kinds of node that hold statements
CompoundKinds == {"if_statement", "case_statement", "while_statement"}

\* the kinds of node that are expressions: they hold expressions only
ExpressionKinds == {"call_expression", "new_expression"}

\* a statement or a declaration stands in the function body or in a
\* compound statement, an expression stands anywhere
WellFormed(kinds, parent, n) ==
    \A i \in 1..n :
        kinds[i] \in ExpressionKinds \/ parent[i] = 0
        \/ kinds[parent[i]] \in CompoundKinds

FunctionBodies ==
    UNION {{[i \in 1..n |-> NodeOfKind(kinds[i], parent[i])] :
               <<kinds, parent>> \in
                   {kp \in [1..n -> NodeKinds] \X TreeShapes(n) :
                       WellFormed(kp[1], kp[2], n)}} :
           n \in 0..MaxNodes}

MacroFunctions ==
    {[FunctionNode("preproc_function_def", NameF, << >>)
         EXCEPT !.fields_ok = ok] : ok \in BOOLEAN}

TreeInputs ==
    {[A |-> <<SourceCodeFile(<<f,
                               CallingFunction(NameB, << >>),
                               CallingFunction(ConstructorName(TypeT), << >>)>>)>>,
      B |-> << >>] :
        f \in {[FunctionNode("function_definition", NameF, body)
                   EXCEPT !.layout = layout] :
                  body \in FunctionBodies,
                  layout \in {"one_line", "multi_line"}}
              \cup MacroFunctions}

\* Call-form inputs: project A is one processed unit that defines f or
\* Foo::f, b and one of the constructor T::T, c and the method Foo::b; the
\* body of f is a tree of at most
\* MaxCalls nodes, each a call by name to the defined b or the undefined
\* x, a member call x on `this`, on the variable s or on the result of a
\* call (the receiver being the first child of the node), or the
\* declaration `T s;` in the function body.  Project B has no unit.
NameFooF == <<"F", "o", "o", SEP, "f">>

CallForms == {"call_b", "call_x", "this_x", "s_x", "call_result_x", "T_s"}

NodeOfForm(form, parent) ==
    IF form = "call_b" THEN CallNode(parent, "identifier", NameB, NoText)
    ELSE IF form = "call_x" THEN CallNode(parent, "identifier", NameX, NoText)
    ELSE IF form = "this_x" THEN FieldCallNode(parent, NameX, "this", NoText)
    ELSE IF form = "s_x" THEN FieldCallNode(parent, NameX, "identifier", VarS)
    ELSE IF form = "call_result_x"
    THEN FieldCallNode(parent, NameX, "call_expression", NoText)
    ELSE DeclNode(parent, "type_identifier", TypeT, "identifier", VarS)

\* the receiver of a member call on a call result is a call below it; a
\* declaration stands in the function body
WellFormedCalls(forms, parent, n) ==
    \A i \in 1..n :
        /\ forms[i] = "call_result_x" =>
               i < n /\ parent[i + 1] = i /\ forms[i + 1] # "T_s"
        /\ forms[i] = "T_s" => parent[i] = 0

CallBodies ==
    UNION {{[i \in 1..n |-> NodeOfForm(forms[i], parent[i])] :
               <<forms, parent>> \in
                   {fp \in [1..n -> CallForms] \X TreeShapes(n) :
                       WellFormedCalls(fp[1], fp[2], n)}} :
           n \in 0..MaxCalls}

CallInputs ==
    {[A |-> <<LoadedUnit(<<FunctionNode("function_definition", name, body),
                           CallingFunction(NameB, << >>),
                           CallingFunction(third, << >>)>>)>>,
      B |-> << >>] :
        name \in {NameF, NameFooF}, body \in CallBodies,
        third \in {ConstructorName(TypeT), NameC, Scoped(NameFoo, NameB)}}

\* Name inputs: project A is two processed units; the first defines up to
\* MaxFuncs functions with different names, the names being those below,
\* the second at most one, bar or Foo::bar.  Project B has no unit.
NameBar == <<"b", "a", "r">>
NameBaz == <<"B", "a", "z">>
NameStd == <<"s", "t", "d">>
NameVector == <<"v", "e", "c">>
NameFooBar == Scoped(NameFoo, NameBar)
NameBazBar == Scoped(NameBaz, NameBar)
NameStdVector == Scoped(NameStd, NameVector)
NameXBar == Scoped(NameX, NameBar)

FunctionNames ==
    {NameBar, NameFooBar, NameBazBar, NameStdVector,
     Scoped(NameFoo, NameVector), Scoped(NameFoo, NameStdVector)}

DistinctSeqsUpTo(S, n) ==
    {q \in SeqsUpTo(S, n) :
        \A i, j \in 1..Len(q) : q[i] = q[j] => i = j}

UnitDefining(names) ==
    LoadedUnit([i \in 1..Len(names) |-> CallingFunction(names[i], << >>)])

NameInputs ==
    {[A |-> <<UnitDefining(first), UnitDefining(second)>>, B |-> << >>] :
        first \in DistinctSeqsUpTo(FunctionNames, MaxFuncs) \ {<< >>},
        second \in SeqsUpTo({NameBar, NameFooBar}, 1)}

\* the lookups made: <<target name, scope, one_layer_only>>
Lookups ==
    {<<NameStdVector, NameFoo, FALSE>>,
     <<NameBar, NameFoo, FALSE>>, <<NameXBar, EmptyStr, FALSE>>,
     <<Scoped(NameX, NameFooBar), EmptyStr, FALSE>>,
     <<Scoped(NameX, NameFooBar), EmptyStr, TRUE>>}

\* the names given to _find_source_with_func_def
SourceLookups == {NameBar, NameFooBar}

\* Namespace inputs: project A is one unit, not yet processed, whose tree
\* has at most MaxNodes nodes, each a function definition, a macro
\* function, a namespace Foo or a namespace without name, a node standing
\* in the unit or in the body of a namespace.  The i-th node, when a
\* function, is named by the i-th name below, after the names of the
\* namespaces around it (lines 562-578).  Project B has no unit.
UnitNames == <<NameA, NameB, NameC, NameD>>

UnitKinds == {"function_definition", "preproc_function_def",
              "namespace_definition", "unnamed_namespace"}

NamespaceKinds == {"namespace_definition", "unnamed_namespace"}

RECURSIVE ScopeOf(_, _, _)
ScopeOf(kinds, parent, i) ==
    IF parent[i] = 0 THEN EmptyStr
    ELSE ScopeOf(kinds, parent, parent[i])
             \o (IF kinds[parent[i]] = "namespace_definition"
                 THEN NameFoo \o <<SEP>> ELSE EmptyStr)

RECURSIVE UnitNode(_, _, _)
UnitNodes(kinds, parent, kids) ==
    [k \in 1..Len(kids) |-> UnitNode(kinds, parent, kids[k])]

UnitNode(kinds, parent, i) ==
    IF kinds[i] \in NamespaceKinds
    THEN NamespaceNode(IF kinds[i] = "namespace_definition"
                       THEN NameFoo ELSE NoText,
                       UnitNodes(kinds, parent,
                           SetToSortedSeq({j \in DOMAIN parent :
                                              parent[j] = i})))
    ELSE IF kinds[i] = "preproc_function_def"
    THEN FunctionNode("preproc_function_def", UnitNames[i], << >>)
    ELSE FunctionNode("function_definition",
                      ScopeOf(kinds, parent, i) \o UnitNames[i], << >>)

UnitTrees ==
    UNION {{UnitNodes(kp[1], kp[2],
                SetToSortedSeq({j \in 1..n : kp[2][j] = 0})) :
               kp \in {kp \in [1..n -> UnitKinds] \X TreeShapes(n) :
                          \A i \in 1..n :
                              kp[2][i] = 0
                              \/ kp[1][kp[2][i]] \in NamespaceKinds}} :
           n \in 1..MaxNodes}

NamespaceInputs ==
    {[A |-> <<SourceCodeFile(children)>>, B |-> << >>] :
        children \in UnitTrees}

\* Macro inputs: project A is one unit, not yet processed, without
\* functions and with one conditional of at most MaxBranches branches.
\* The first branch is #ifdef X, #ifndef X or #if X, the later ones are
\* #elif X and, as last one, #else; a name or condition may be missing.
\* Branch i begins on the row after the at most MaxLines lines of
\* branch i - 1; the conditional ends on the row of its #endif, an
\* alternative on its last line or on the row of the #endif.
FirstBranches ==
    {<<"preproc_ifdef", "#ifdef">>, <<"preproc_ifdef", "#ifndef">>,
     <<"preproc_if", "#if">>}

LaterBranches == {<<"preproc_elif", "#elif">>, <<"preproc_else", "#else">>}

BranchKinds(n) ==
    {k \in [1..n -> FirstBranches \cup LaterBranches] :
        /\ k[1] \in FirstBranches
        /\ \A i \in 2..n : k[i] \in LaterBranches
        /\ \A i \in 2..(n - 1) : k[i][1] # "preproc_else"}

\* the row on which branch i begins
RECURSIVE BranchRow(_, _)
BranchRow(lines, i) ==
    IF i = 1 THEN 0 ELSE BranchRow(lines, i - 1) + lines[i - 1] + 1

Conditionals ==
    UNION {{[i \in 1..n |->
                MacroBranch(kinds[i][1], kinds[i][2],
                    IF kinds[i][1] = "preproc_else" \/ ~named[i]
                    THEN NoText ELSE NameX,
                    BranchRow(lines, i),
                    IF i = 1 THEN BranchRow(lines, n + 1)
                    ELSE BranchRow(lines, n + 1) - ended[i])] :
               kinds \in BranchKinds(n), named \in [1..n -> BOOLEAN],
               lines \in [1..n -> 0..MaxLines],
               ended \in [1..n -> {0, 1}]} :
           n \in 1..MaxBranches}

MacroInputs ==
    {[A |-> <<[SourceCodeFile(<< >>) EXCEPT !.macros = <<macro>>]>>,
      B |-> << >>] : macro \in Conditionals}

\* names given as entry points to extract_calltree and
\* get_reachable_functions
EntryPoints == {NameA}

(***************************************************************************)
(* The state machine.                                                      *)
(***************************************************************************)
NoOp == [op |-> "none", p |-> "none", path |-> "none", function |-> EmptyStr,
         result |-> << >>, returned |-> {}, cached_before |-> 0,
         walked |-> FALSE, nesting |-> 0]

InitWith(inputs) ==
    /\ source_code_files \in inputs
    /\ all_functions = [p \in Projects |-> << >>]
    /\ internal_func_list = [p \in Projects |-> << >>]
    /\ report = [p \in Projects |-> << >>]
    /\ function_node_cache = EmptyCache
    /\ last = NoOp

Loaded(p) == \A k \in 1..Len(source_code_files[p]) : source_code_files[p][k].loaded

NewCtx == [cache |-> function_node_cache, returned |-> {}]

\* CppSourceCodeFile(...): language_specific_process on a unit
LoadSource(p, k) ==
    /\ ~source_code_files[p][k].loaded
    /\ source_code_files' =
           [source_code_files EXCEPT ![p][k] = LanguageSpecificProcess(@)]
    /\ last' = [NoOp EXCEPT !.op = "load", !.p = p]
    /\ UNCHANGED <<all_functions, internal_func_list, report, function_node_cache>>

ThisProject(p) ==
    [files |-> source_code_files, p |-> p, all_functions |-> all_functions[p]]

CachedBefore == Cardinality(DOMAIN function_node_cache)

\* generate_report, lines 1057-1124, on the path that computes func_list;
\* g is what the loop over the functions left
ReportComputed(p, function_list, g) ==
    /\ source_code_files' = g.files
    /\ internal_func_list' = [internal_func_list EXCEPT ![p] = g.func_list]
    /\ report' = [report EXCEPT ![p] =
                     IF g.func_list # << >> THEN g.func_list ELSE @]
    /\ last' = [NoOp EXCEPT !.op = "generate_report", !.p = p,
                            !.path = "computed",
                            !.returned = g.ctx.returned,
                            !.nesting = g.nesting,
                            !.cached_before = CachedBefore]

\* generate_report, lines 1114-1124, on the path that reuses
\* internal_func_list
ReportReused(p) ==
    /\ report' = [report EXCEPT ![p] = internal_func_list[p]]
    /\ last' = [NoOp EXCEPT !.op = "generate_report", !.p = p,
                            !.path = "reused",
                            !.cached_before = CachedBefore]
    /\ UNCHANGED <<source_code_files, internal_func_list>>

\* the cache left as it was
CacheNotCleared == function_node_cache

\* line 1124, _function_node_cache.clear()
ClearedCache == EmptyCache

\* CppProject.generate_report, with the all_functions of lines 1035-1041
GenerateReportWith(p, function_list) ==
    /\ all_functions' = [all_functions EXCEPT ![p] = function_list]
    /\ IF internal_func_list[p] = << >>
       THEN ReportComputed(p, function_list,
                ProcessAllFunctions(p, function_list,
                    [files |-> source_code_files, ctx |-> NewCtx,
                     func_list |-> << >>, nesting |-> 0], 1))
       ELSE ReportReused(p)
    /\ function_node_cache' = ClearedCache

\* CppProject.generate_report
GenerateReport(p) ==
    /\ Loaded(p)
    /\ GenerateReportWith(p, AllRefs(source_code_files, p))

MaxOf(S) == CHOOSE x \in S : \A y \in S : x >= y

\* extract_calltree: what it returns and leaves in the cache; the nesting
\* of its recursion is the largest `depth` it was called with, and every
\* call prints its depth
CalltreeReturned(p, function, c) ==
    /\ function_node_cache' = c.ctx.cache
    /\ last' = [NoOp EXCEPT !.op = "extract_calltree", !.p = p,
                            !.function = function, !.result = c.out,
                            !.nesting =
                                MaxOf({c.out[i][1] : i \in DOMAIN c.out}),
                            !.returned = c.ctx.returned,
                            !.cached_before = CachedBefore]

\* CppProject.extract_calltree(function=function)
ExtractCalltree(p, function) ==
    /\ Loaded(p)
    /\ CalltreeReturned(p, function,
           ExtractCalltreeFrom(ThisProject(p),
               [out |-> << >>, visited |-> {}, ctx |-> NewCtx],
               function, 0, None, -1))
    /\ UNCHANGED <<source_code_files, all_functions, internal_func_list, report>>

\* get_reachable_functions: what it returns and leaves in the cache
ReachableReturned(p, function, c) ==
    /\ function_node_cache' = c.ctx.cache
    /\ last' = [NoOp EXCEPT !.op = "get_reachable_functions", !.p = p,
                            !.function = function, !.result = c.visited,
                            !.nesting = c.nesting,
                            !.returned = c.ctx.returned,
                            !.cached_before = CachedBefore]

\* CppProject.get_reachable_functions(function=function)
GetReachableFunctions(p, function) ==
    /\ Loaded(p)
    /\ ReachableReturned(p, function,
           GetReachableFrom(ThisProject(p),
               [visited |-> {}, ctx |-> NewCtx, level |-> 0, nesting |-> 0],
               function))
    /\ UNCHANGED <<source_code_files, all_functions, internal_func_list, report>>

Init == InitWith(CallGraphInputs)

Next ==
    \/ \E p \in Projects : GenerateReport(p)
    \/ \E p \in Projects : \E f \in EntryPoints : ExtractCalltree(p, f)
    \/ \E p \in Projects : \E f \in EntryPoints : GetReachableFunctions(p, f)

\* a project of already processed units and its operations
Spec == Init /\ [][Next]_vars

InitUnit == InitWith(TreeInputs)

NextUnit ==
    \/ \E k \in 1..Len(source_code_files["A"]) : LoadSource("A", k)
    \/ GenerateReport("A")

\* a unit from its syntax tree to the report of its project
SpecUnit == InitUnit /\ [][NextUnit]_vars

\* extract_callsites: the function and the cache it leaves; `walked` says
\* whether this call traversed the tree (line 469); `path` is "again" when
\* the report of the project, or the operation before this one, asked for
\* the call sites of the function
CallsitesReturned(p, ref, r) ==
    /\ source_code_files' = SetFunc(source_code_files, ref, r.self)
    /\ function_node_cache' = r.ctx.cache
    /\ last' = [NoOp EXCEPT
                  !.op = "extract_callsites", !.p = p,
                  !.path =
                      IF \/ internal_func_list[p] # << >>
                         \/ /\ last.op = "extract_callsites"
                            /\ last.function = Func(source_code_files, ref).name
                      THEN "again" ELSE "first",
                  !.function = Func(source_code_files, ref).name,
                  !.result = r.self.base_callsites,
                  !.returned = r.ctx.returned,
                  !.cached_before = CachedBefore,
                  !.walked = (Func(source_code_files, ref).base_callsites = << >>)]

\* FunctionDefinition.extract_callsites(project) on a function of p
ExtractCallsitesOf(p, ref) ==
    /\ Loaded(p)
    /\ CallsitesReturned(p, ref,
           ExtractCallsites(source_code_files, all_functions[p],
                            Func(source_code_files, ref), NewCtx))
    /\ UNCHANGED <<all_functions, internal_func_list, report>>

\* get_function_node: what it returns and leaves in the cache
FunctionNodeReturned(p, target_name, one_layer_only, namespace, looked) ==
    /\ function_node_cache' = looked.ctx.cache
    /\ last' = [NoOp EXCEPT
                  !.op = "get_function_node", !.p = p,
                  !.function = target_name,
                  !.result = [node |-> looked.node, namespace |-> namespace,
                              one_layer_only |-> one_layer_only],
                  !.returned = looked.ctx.returned,
                  !.cached_before = CachedBefore]

\* get_function_node(target_name, function_list, one_layer_only,
\* namespace) on the functions of p
LookupFunctionNode(p, target_name, one_layer_only, namespace) ==
    /\ Loaded(p)
    /\ FunctionNodeReturned(p, target_name, one_layer_only, namespace,
           GetFunctionNode(source_code_files, NewCtx, target_name,
                           AllRefs(source_code_files, p), one_layer_only,
                           namespace))
    /\ UNCHANGED <<source_code_files, all_functions, internal_func_list, report>>

\* CppProject._find_source_with_func_def(name)
FindSource(p, name) ==
    /\ Loaded(p)
    /\ last' = [NoOp EXCEPT
                  !.op = "find_source_with_func_def", !.p = p,
                  !.function = name,
                  !.result = FindSourceWithFuncDef(source_code_files, p, name),
                  !.cached_before = CachedBefore]
    /\ UNCHANGED <<source_code_files, all_functions, internal_func_list,
                   report, function_node_cache>>

InitNames == InitWith(NameInputs)

NextNames ==
    \/ \E l \in Lookups : LookupFunctionNode("A", l[1], l[3], l[2])
    \/ \E name \in SourceLookups : FindSource("A", name)

\* the lookups of a project by name
SpecNames == InitNames /\ [][NextNames]_vars

InitMacro == InitWith(MacroInputs)

NextMacro == LoadSource("A", 1)

\* a unit with a preprocessor conditional, processed
SpecMacro == InitMacro /\ [][NextMacro]_vars

InitNamespace == InitWith(NamespaceInputs)

NextNamespace == LoadSource("A", 1)

\* a unit with namespaces, processed
SpecNamespace == InitNamespace /\ [][NextNamespace]_vars

InitTwoUnits == InitWith(TwoUnitInputs)

NextTwoUnits ==
    \/ GenerateReport("A")
    \/ ExtractCalltree("A", NameA)
    \/ GetReachableFunctions("A", NameA)

\* a project of two units: its report and the walks from a
SpecTwoUnits == InitTwoUnits /\ [][NextTwoUnits]_vars

InitDepth == InitWith(DepthInputs)

NextDepth ==
    \/ \E ref \in SeqToSet(AllRefs(source_code_files, "A")) :
           ExtractCallsitesOf("A", ref)
    \/ GenerateReport("A")

\* the call sites of the functions asked for one by one, then the report
SpecDepth == InitDepth /\ [][NextDepth]_vars

InitCalls == InitWith(CallInputs)

NextCalls ==
    \/ ExtractCallsitesOf("A", <<"A", 1, 1>>)
    \/ GenerateReport("A")

\* the call sites of one function, asked for directly and by the report
SpecCalls == InitCalls /\ [][NextCalls]_vars

(***************************************************************************)
(* Vocabulary of the properties.                                           *)
(***************************************************************************)
RefsOf(p) == SeqToSet(AllRefs(source_code_files, p))
FuncAt(ref) == Func(source_code_files, ref)
AllFuncRefs == UNION {RefsOf(p) : p \in Projects}

\* generate_report has produced the records of p
Reported(p) == internal_func_list[p] # << >>

\* the record generate_report made for a function
RecordOf(ref) ==
    internal_func_list[ref[1]][IndexOf(AllRefs(source_code_files, ref[1]), ref)]

\* the names a function calls, as written in its body
CalledNames(func) == [i \in 1..Len(func.root.nodes) |-> func.root.nodes[i].text]

\* the project functions that the call sites of a function locate
LocatableCallees(ref) ==
    {FindSourceWithFuncDef(source_code_files, ref[1],
                           FuncAt(ref).base_callsites[i][1]) :
        i \in 1..Len(FuncAt(ref).base_callsites)} \ {None}

RECURSIVE CalleesWithin(_, _)
CalleesWithin(refs, steps) ==
    IF steps = 0 THEN refs
    ELSE CalleesWithin(refs \cup UNION {LocatableCallees(r) : r \in refs},
                       steps - 1)

\* no function of p is reached from its own callees
Acyclic(p) ==
    \A r \in RefsOf(p) :
        r \notin CalleesWithin(LocatableCallees(r), Cardinality(RefsOf(p)))

\* depth as the specification defines it, on an acyclic call graph
RECURSIVE LongestChain(_)
LongestChain(ref) ==
    IF LocatableCallees(ref) = {} THEN 0
    ELSE 1 + MaxOf({LongestChain(r) : r \in LocatableCallees(ref)})

\* the nodes of a function body that produce a call site, and the byte
\* offset each is recorded with
RecordedOffset(root, n) ==
    IF root.nodes[n].type = "call_expression" THEN FuncEndByte(root, n)
    ELSE EndByte(root, n)

\* The caller and the report.  generate_report returns nothing: the
\* caller reads self.report, whose 'All functions'/'Elements' the first
\* call fills with the dictionaries it built (their 'Callsites' being the
\* functions' own detailed_callsites lists) and later calls with a deep
\* copy of internal_func_list.
ForgedRecord ==
    [functionName |-> NameX, CyclomaticComplexity |-> 0, ICount |-> 0,
     BBCount |-> 0, Callsites |-> << >>, functionUses |-> 0,
     functionDepth |-> 0, functionsReached |-> {}]

\* what a caller may store as the elements of the report of p
CallerElements(p) ==
    {<< >>, <<ForgedRecord>>}
        \cup (IF report[p] # << >> THEN {Tail(report[p])} ELSE {})

\* the caller holds the report that generate_report left for p
HoldsReport(p) == last.op \in {"generate_report", "caller"} /\ last.p = p

\* the i-th record of the report of p is the dictionary the computing
\* call built for the i-th function
BuiltFor(p, i) ==
    /\ last.path = "computed"
    /\ i <= Len(all_functions[p])
    /\ report[p][i].functionName = FuncAt(all_functions[p][i]).name

\* the caller replaces report['All functions']['Elements']
ReplaceElements(p, elements) ==
    /\ HoldsReport(p)
    /\ elements # report[p]
    /\ report' = [report EXCEPT ![p] = elements]
    /\ last' = [last EXCEPT !.op = "caller"]
    /\ UNCHANGED <<source_code_files, all_functions, internal_func_list,
                   function_node_cache>>

\* the caller empties the 'Callsites' list of the i-th record in place
ClearCallsites(p, i) ==
    /\ HoldsReport(p)
    /\ i \in DOMAIN report[p]
    /\ report[p][i].Callsites # << >>
    /\ report' = [report EXCEPT ![p][i].Callsites = << >>]
    /\ source_code_files' =
           IF BuiltFor(p, i)
           THEN SetFunc(source_code_files, all_functions[p][i],
                    [FuncAt(all_functions[p][i]) EXCEPT
                        !.detailed_callsites = << >>])
           ELSE source_code_files
    /\ last' = [last EXCEPT !.op = "caller"]
    /\ UNCHANGED <<all_functions, internal_func_list, function_node_cache>>

\* the call-graph projects, each beside a project without source units
ReportInputs ==
    {[A |-> <<LoadedUnit(children)>>, B |-> << >>] :
        children \in CallGraphUnits}

InitReport == InitWith(ReportInputs)

NextReport ==
    \/ \E p \in Projects : GenerateReport(p)
    \/ \E p \in Projects : \E elements \in CallerElements(p) :
           ReplaceElements(p, elements)
    \/ \E p \in Projects : \E i \in 1..MaxFuncs + 1 : ClearCallsites(p, i)

SpecReport == InitReport /\ [][NextReport]_vars

(***************************************************************************)
(* Properties.                                                             *)
(***************************************************************************)
IsMutualRecursionProject ==
    LET func_defs == source_code_files["A"][1].func_defs
    IN  /\ Len(func_defs) = 2
        /\ func_defs[1].name = NameA /\ CalledNames(func_defs[1]) = <<NameB>>
        /\ func_defs[2].name = NameB /\ CalledNames(func_defs[2]) = <<NameA>>

\* C1: for the project `void a(){ b(); } void b(){ a(); }`, after
\* generate_report the depth reported for a and the depth reported for b
\* are both 1.
C1_MutualRecursionDepthOne ==
    (IsMutualRecursionProject /\ Reported("A")) =>
        /\ RecordOf(<<"A", 1, 1>>).functionDepth = 1
        /\ RecordOf(<<"A", 1, 2>>).functionDepth = 1

\* C2: in a project whose call graph is acyclic, the depth reported for
\* every function is 0 when no call site locates a project function and
\* otherwise 1 + the largest depth of its locatable callees.
C2_AcyclicDepth ==
    (Reported("A") /\ Acyclic("A")) =>
        \A r \in RefsOf("A") : RecordOf(r).functionDepth = LongestChain(r)

\* C3: the uses-count reported for a function is the number of functions
\* of the project with a call site whose target equals or ends with its
\* name.
C3_UsesCount ==
    Reported("A") =>
        \A r \in RefsOf("A") :
            RecordOf(r).functionUses =
                Cardinality({g \in RefsOf("A") :
                                CallsTarget(FuncAt(g), FuncAt(r).name)})

\* C4: every lookup made by an operation on a project returns not-found
\* or a function of that project.
C4_NoForeignFunction ==
    \A r \in last.returned : r[1] = last.p

\* C5: whenever generate_report returns, on either path, the
\* name-resolution cache is empty.
C5_CacheEmptyAfterReport ==
    last.op = "generate_report" => function_node_cache = EmptyCache

\* generate_report has returned on the path that reuses the function list,
\* entered with entries in the cache
C5_Witness ==
    /\ last.op = "generate_report"
    /\ last.path = "reused"
    /\ last.cached_before > 0

\* C6: every FunctionDefinition recorded in a unit has complexity >= 1.
C6_ComplexityAtLeastOne ==
    \A r \in AllFuncRefs : FuncAt(r).complexity >= 1

\* C7: the complexity of a non-macro function is 1 + the number of branch
\* nodes of its tree.
C7_ComplexityCountsBranches ==
    \A r \in AllFuncRefs :
        FuncAt(r).root.type = "function_definition" =>
            FuncAt(r).complexity =
                1 + Cardinality({n \in 1..Len(FuncAt(r).root.nodes) :
                                    FuncAt(r).root.nodes[n].type \in BranchNodes})

\* C8: the basic-block estimate of a non-macro function is 1 + the number
\* of if statements + the number of case labels of its tree, nested ones
\* included.
C8_BasicBlockCount ==
    \A r \in AllFuncRefs :
        FuncAt(r).root.type = "function_definition" =>
            FuncAt(r).bbcount =
                1 + Cardinality({n \in 1..Len(FuncAt(r).root.nodes) :
                                    FuncAt(r).root.nodes[n].type = "if_statement"})
                  + Cardinality({n \in 1..Len(FuncAt(r).root.nodes) :
                                    FuncAt(r).root.nodes[n].type = "case_statement"})

\* a recorded function whose body is one if holding a nested if, with a
\* basic-block estimate of 3
C8_Witness ==
    \E r \in AllFuncRefs :
        /\ Len(FuncAt(r).root.nodes) = 2
        /\ FuncAt(r).root.nodes[1].type = "if_statement"
        /\ FuncAt(r).root.nodes[2].type = "if_statement"
        /\ FuncAt(r).root.nodes[2].parent = 1
        /\ FuncAt(r).bbcount = 3

\* C9: the call-site list of a function holds no two entries with the same
\* (target, line) pair.
C9_NoDuplicateCallsites ==
    \A r \in AllFuncRefs :
        \A i, j \in 1..Len(FuncAt(r).base_callsites) :
            i # j => FuncAt(r).base_callsites[i] # FuncAt(r).base_callsites[j]

\* C10: the call-site list of a function is in non-decreasing order of the
\* byte offsets its call sites were recorded with, each entry being the
\* call site of a node of the body at that offset.
C10_CallsitesOrderedByOffset ==
    \A r \in AllFuncRefs :
        LET func == FuncAt(r)
        IN  /\ Len(func.callsite_offsets) = Len(func.base_callsites)
            /\ \A i \in 1..Len(func.base_callsites) :
                   \E n \in 1..Len(func.root.nodes) :
                       /\ func.root.nodes[n].type \in
                              {"call_expression", "new_expression", "declaration"}
                       /\ RecordedOffset(func.root, n) = func.callsite_offsets[i]
                       /\ StartLine(func.root, n) = func.base_callsites[i][2]
            /\ \A i \in 1..(Len(func.base_callsites) - 1) :
                   func.callsite_offsets[i] <= func.callsite_offsets[i + 1]

\* call sites were extracted from a body that is a declaration
\* synthesizing a constructor call, holding a new expression that holds a
\* direct call
C10_Witness ==
    \E r \in AllFuncRefs :
        /\ Len(FuncAt(r).root.nodes) = 3
        /\ FuncAt(r).root.nodes[1].type = "declaration"
        /\ FuncAt(r).root.nodes[2].type = "new_expression"
        /\ FuncAt(r).root.nodes[2].parent = 1
        /\ FuncAt(r).root.nodes[3].type = "call_expression"
        /\ FuncAt(r).root.nodes[3].parent = 2
        /\ Len(FuncAt(r).base_callsites) = 3


\* the callee name written at a call_expression node
CalleeName(node) ==
    IF node.ftype = "field_expression" THEN node.name ELSE node.text

\* no function of the project has a name that is, or ends with, the name
NamesNoFunction(p, name) ==
    \A r \in RefsOf(p) : ~EndsWith(FuncAt(r).name, name)

\* the call-site list of func has an entry for the call at node n that
\* carries the callee name
HasEntryFor(func, n) ==
    \E i \in 1..Len(func.base_callsites) :
        /\ func.callsite_offsets[i] = RecordedOffset(func.root, n)
        /\ EndsWith(func.base_callsites[i][1], CalleeName(func.root.nodes[n]))

\* C11: a call of extract_callsites on a function whose call sites were
\* asked for before does not traverse the tree again, whatever the number
\* of call sites of the function.
C11_SecondExtractionCached ==
    (last.op = "extract_callsites" /\ last.path = "again") => ~last.walked

\* C18: after call-site extraction, every call expression of the body
\* whose callee names no project function has an entry in the call-site
\* list carrying the callee name, member calls on the result of a call
\* included.
C18_UnresolvedCallsRecorded ==
    last.op = "extract_callsites" =>
        \A n \in 1..Len(FuncAt(<<"A", 1, 1>>).root.nodes) :
            (/\ FuncAt(<<"A", 1, 1>>).root.nodes[n].type = "call_expression"
             /\ NamesNoFunction("A", CalleeName(FuncAt(<<"A", 1, 1>>).root.nodes[n])))
                => HasEntryFor(FuncAt(<<"A", 1, 1>>), n)


\* the function calls itself and nothing else
SelfRecursiveOnly(ref) ==
    /\ CalledNames(FuncAt(ref)) # << >>
    /\ \A i \in 1..Len(CalledNames(FuncAt(ref))) :
           CalledNames(FuncAt(ref))[i] = FuncAt(ref).name

\* C14: a function whose only call sites target itself has reported
\* depth exactly 1.
C14_SelfRecursionDepthOne ==
    \A p \in Projects :
        Reported(p) =>
            \A r \in RefsOf(p) :
                SelfRecursiveOnly(r) => RecordOf(r).functionDepth = 1

\* the report of A holds a function that only calls itself, with depth 1
C14_Witness ==
    /\ Reported("A")
    /\ SelfRecursiveOnly(<<"A", 1, 1>>)
    /\ RecordOf(<<"A", 1, 1>>).functionDepth = 1

\* the functions of p that lie on a call cycle
OnCycle(p) ==
    {r \in RefsOf(p) :
        r \in CalleesWithin(LocatableCallees(r), Cardinality(RefsOf(p)))}

\* the lines of a rendered call tree that print the name
LinesOf(out, name) == {i \in 1..Len(out) : out[i][2] = name}

\* C16: in the call tree rendered from an entry point, every function on
\* a call cycle appears on exactly one line.
C16_CycleNodePrintedOnce ==
    last.op = "extract_calltree" =>
        \A r \in OnCycle(last.p) :
            LinesOf(last.result, FuncAt(r).name) # {} =>
                Cardinality(LinesOf(last.result, FuncAt(r).name)) = 1

\* the names called by the functions of p whose name is in S
CalledFrom(p, S) ==
    UNION {{FuncAt(r).base_callsites[i][1] :
               i \in 1..Len(FuncAt(r).base_callsites)} :
           r \in {q \in RefsOf(p) : FuncAt(q).name \in S}}

\* the names reached from the names of S in at most `steps` calls
RECURSIVE CallableWithin(_, _, _)
CallableWithin(p, S, steps) ==
    IF steps = 0 THEN S
    ELSE CallableWithin(p, S \cup CalledFrom(p, S), steps - 1)

NamesOf(p) == {FuncAt(r).name : r \in RefsOf(p)}
NamedRefs(p, name) == {r \in RefsOf(p) : FuncAt(r).name = name}

\* a lookup of `target_name` has just returned
LookedUp(target_name) ==
    last.op = "get_function_node" /\ last.function = target_name

\* C12 as stated: a lookup of std::vector returns not-found for every
\* scope and every function list.
C12_StdNeverResolves ==
    LookedUp(NameStdVector) => last.result.node = None

\* C12 amended: a lookup of std::vector returns not-found unless a project
\* function is named exactly std::vector, or exactly scope::std::vector
\* for the scope of the lookup; a function whose name only ends in
\* ::vector is never returned.
C12_StdResolvesOnlyExactly ==
    LookedUp(NameStdVector) =>
        \/ last.result.node = None
        \/ FuncAt(last.result.node).name = NameStdVector
        \/ /\ last.result.namespace # EmptyStr
           /\ FuncAt(last.result.node).name =
                  Scoped(last.result.namespace, NameStdVector)

\* std::vector was looked up in a project with a function Foo::vector and
\* not found
C12_Witness ==
    /\ LookedUp(NameStdVector)
    /\ Scoped(NameFoo, NameVector) \in NamesOf("A")
    /\ last.result.node = None

\* C13: with project functions Foo::bar and Baz::bar, declared in either
\* order, and no function named bar, a lookup of bar with scope Foo
\* returns Foo::bar.
C13_ScopedLookup ==
    (/\ LookedUp(NameBar) /\ last.result.namespace = NameFoo
     /\ {NameFooBar, NameBazBar} \subseteq NamesOf("A")
     /\ NameBar \notin NamesOf("A"))
        => /\ last.result.node # None
           /\ FuncAt(last.result.node).name = NameFooBar

\* bar was looked up with scope Foo where Baz::bar is declared before
\* Foo::bar, and Foo::bar was returned
C13_Witness ==
    /\ LookedUp(NameBar) /\ last.result.namespace = NameFoo
    /\ FuncAt(<<"A", 1, 1>>).name = NameBazBar
    /\ Len(source_code_files["A"][1].func_defs) = 2
    /\ FuncAt(<<"A", 1, 2>>).name = NameFooBar
    /\ last.result.node = <<"A", 1, 2>>

\* the units of p that define a function with this qualified name
UnitsDefining(p, name) == {r[2] : r \in NamedRefs(p, name)}

\* C15: when exactly one unit defines a function whose qualified name is
\* the requested name, the source lookup returns that unit and a function
\* of that name, whatever the other units contain.
C15_UniqueExactSource ==
    (/\ last.op = "find_source_with_func_def"
     /\ Cardinality(UnitsDefining(last.p, last.function)) = 1)
        => /\ last.result # None
           /\ last.result[2] \in UnitsDefining(last.p, last.function)
           /\ FuncAt(last.result).name = last.function

\* the functions of p whose name ends with the last component of the name
TextualMatches(p, name) ==
    {r \in RefsOf(p) : EndsWith(FuncAt(r).name, LastPart(name))}

\* the units of p in which CppSourceCodeFile.get_function_node finds the
\* name
UnitsMatching(p, name, exact) ==
    {k \in 1..Len(source_code_files[p]) :
        SourceGetFunctionNode(source_code_files[p][k].func_defs, name,
                              exact) # 0}

\* C19 as stated: a lookup whose name textually matches more than one
\* project function returns not-found.
C19_AmbiguousNotFound ==
    (/\ LookedUp(NameXBar)
     /\ Cardinality(TextualMatches(last.p, NameXBar)) > 1)
        => last.result.node = None

\* C19 amended: a source lookup whose name is found in more than one unit,
\* no single unit matching it exactly, returns not-found; a project-wide
\* lookup of a qualified name that only suffix matching resolves returns
\* the first function, in declaration order, whose name ends with the
\* suffix.
C19_AmbiguousSourceNotFound ==
    /\ (/\ last.op = "find_source_with_func_def"
        /\ Cardinality(UnitsMatching(last.p, last.function, TRUE)) # 1
        /\ Cardinality(UnitsMatching(last.p, last.function, FALSE)) > 1)
           => last.result = None
    /\ (/\ LookedUp(NameXBar)
        /\ TextualMatches(last.p, NameXBar) # {})
           => /\ last.result.node \in TextualMatches(last.p, NameXBar)
              /\ \A r \in TextualMatches(last.p, NameXBar) :
                     IndexOf(AllRefs(source_code_files, last.p), last.result.node)
                         <= IndexOf(AllRefs(source_code_files, last.p), r)

\* bar was looked up as a source where both units define it, and was not
\* found
C19_Witness ==
    /\ last.op = "find_source_with_func_def" /\ last.function = NameBar
    /\ UnitsDefining("A", NameBar) = {1, 2}
    /\ last.result = None


\* the rows a conditional-block record covers, line_start and line_end
\* being rows of the unit as in the other records of the unit
RowsOf(block) == block.pos.line_start..block.pos.line_end

\* the unit is `#ifdef X <lines> #else <lines> #endif`, processed
IsIfdefElse(file) ==
    /\ file.loaded
    /\ Len(file.macros) = 1 /\ Len(file.macros[1]) = 2
    /\ file.macros[1][1].type = "preproc_ifdef"
    /\ file.macros[1][1].directive = "#ifdef"
    /\ file.macros[1][1].text = NameX
    /\ file.macros[1][2].type = "preproc_else"

\* C20: for a unit `#ifdef X <lines> #else <lines> #endif` exactly two
\* conditional-block records are produced, with conditions ifdef X and
\* ifndef X, and their line ranges are contiguous and have no row in
\* common.
C20_IfdefElseBlocks ==
    \A k \in 1..Len(source_code_files["A"]) :
        IsIfdefElse(source_code_files["A"][k]) =>
            LET blocks == source_code_files["A"][k].macro_blocks
            IN  /\ Len(blocks) = 2
                /\ blocks[1].conditions =
                       <<[type |-> "ifdef", condition |-> NameX]>>
                /\ blocks[2].conditions =
                       <<[type |-> "ifndef", condition |-> NameX]>>
                /\ RowsOf(blocks[1]) \cap RowsOf(blocks[2]) = {}
                /\ blocks[2].pos.line_start = blocks[1].pos.line_end + 1


\* the declarations `T s;` of the body of a function
DeclarationsOf(func) ==
    {n \in 1..Len(func.root.nodes) :
        /\ func.root.nodes[n].type = "declaration"
        /\ func.root.nodes[n].arg = "identifier"}

\* the call sites of func were extracted by the last operation
ExtractedLast == last.op \in {"extract_callsites", "generate_report"}

\* C21: after call-site extraction on a function that declares `T s;` in
\* a project with no function named T::T, the call-site list of the
\* function has no entry for T::T and its variable-type map maps s to T.
C21_NoConstructorNoCallsite ==
    (/\ ExtractedLast
     /\ DeclarationsOf(FuncAt(<<"A", 1, 1>>)) # {}
     /\ NamedRefs("A", ConstructorName(TypeT)) = {})
        => /\ \A i \in 1..Len(FuncAt(<<"A", 1, 1>>).base_callsites) :
                  FuncAt(<<"A", 1, 1>>).base_callsites[i][1]
                      # ConstructorName(TypeT)
           /\ VarS \in DOMAIN FuncAt(<<"A", 1, 1>>).var_map
           /\ FuncAt(<<"A", 1, 1>>).var_map[VarS] = TypeT

\* the report of A was generated, A has no T::T, and f declares `T s;`
\* and calls x on s: its only call site is T::x
C21_Witness ==
    /\ last.op = "generate_report"
    /\ NamedRefs("A", ConstructorName(TypeT)) = {}
    /\ Len(FuncAt(<<"A", 1, 1>>).root.nodes) = 2
    /\ DeclarationsOf(FuncAt(<<"A", 1, 1>>)) = {1}
    /\ Len(FuncAt(<<"A", 1, 1>>).base_callsites) = 1
    /\ FuncAt(<<"A", 1, 1>>).base_callsites[1][1] = Scoped(TypeT, NameX)
    /\ FuncAt(<<"A", 1, 1>>).var_map[VarS] = TypeT


\* what __init__ and _extract_information set of a function, the
\* variable-type map apart
Constructed(func) ==
    [root |-> func.root, namespace_or_class |-> func.namespace_or_class,
     valid |-> func.valid, name |-> func.name,
     complexity |-> func.complexity, icount |-> func.icount,
     bbcount |-> func.bbcount]

\* the variable-type map m with more variables
Extends(n, m) ==
    /\ DOMAIN m \subseteq DOMAIN n
    /\ \A v \in DOMAIN m : n[v] = m[v]

\* C22 as stated: no operation changes an attribute of a function other
\* than its call-site lists and its depth; the name, the metrics and the
\* variable-type map stay as they were at construction.
C22_ImmutableButCaches ==
    [][\A r \in AllFuncRefs :
          /\ Constructed(FuncAt(r))' = Constructed(FuncAt(r))
          /\ FuncAt(r).var_map' = FuncAt(r).var_map]_vars

\* C22: no operation changes an attribute of a function other than its
\* call-site lists, its depth and its variable-type map; the map changes
\* only in an operation that walks the body of the function for its call
\* sites, which adds the declared variables to it.
C22_ImmutableButCachesAndVarMap ==
    [][\A r \in AllFuncRefs :
          /\ Constructed(FuncAt(r))' = Constructed(FuncAt(r))
          /\ Extends(FuncAt(r).var_map', FuncAt(r).var_map)
          /\ FuncAt(r).var_map' # FuncAt(r).var_map =>
                 /\ FuncAt(r).base_callsites = << >>
                 /\ DeclarationsOf(FuncAt(r)) # {}]_vars

\* extract_callsites walked f, which declares `T s;` and calls b: the
\* call site is stored and the variable-type map, empty at construction,
\* holds s
C22_Witness ==
    /\ last.op = "extract_callsites" /\ last.walked
    /\ FuncAt(<<"A", 1, 1>>).var_map = (VarS :> TypeT)
    /\ Len(FuncAt(<<"A", 1, 1>>).base_callsites) = 1
    /\ FuncAt(<<"A", 1, 1>>).base_callsites[1][1] = NameB
    /\ Constructed(FuncAt(<<"A", 1, 1>>))
           = Constructed(FunctionDefinition(FuncAt(<<"A", 1, 1>>).root,
                                            EmptyStr))


\* every function of p that makes a call has its call sites
AllExtracted(p) ==
    \A r \in RefsOf(p) :
        CalledNames(FuncAt(r)) # << >> => FuncAt(r).base_callsites # << >>

\* C25: when generate_report computes the depths with all call sites
\* already extracted and the call graph is acyclic, so that no callee is
\* on the recursion path, every callee contributes 1 + its own depth: the
\* depth of a function with callees is 1 + the largest depth of its
\* callees, also for a callee explored before in a finished branch (a
\* calls b then c, c calls b).
C25_SiblingCalleeDepth ==
    [][(/\ AllExtracted("A") /\ Acyclic("A")
        /\ last'.op = "generate_report" /\ last'.path = "computed")
          => \A r \in RefsOf("A") :
                 RecordOf(r)'.functionDepth = LongestChain(r)]_vars


\* C23: in the record generate_report makes for a function, the field
\* functionsReached contains every name transitively callable from the
\* function, the names that are no project function included.
C23_ReachedIsTransitive ==
    \A p \in Projects :
        Reported(p) =>
            \A r \in RefsOf(p) :
                CallableWithin(p, CalledFrom(p, {FuncAt(r).name}),
                               Cardinality(RefsOf(p)))
                    \subseteq RecordOf(r).functionsReached


\* the function nodes of a tree, those in the bodies of namespaces
\* included
RECURSIVE FunctionNodesOf(_)
FunctionNodesOf(children) ==
    IF children = << >> THEN {}
    ELSE (IF Head(children).type = "namespace_definition"
          THEN FunctionNodesOf(Head(children).children)
          ELSE {Head(children)})
             \cup FunctionNodesOf(Tail(children))

\* the entries of the function list of a unit made from a node
EntriesOf(file, node) ==
    {i \in 1..Len(file.func_defs) : file.func_defs[i].root = node}

\* C24: after a unit is built, every valid function-definition or
\* macro-function node of its tree, also in the body of a namespace
\* nested to any depth, has exactly one entry in the function list of
\* the unit.
C24_OneEntryPerFunctionNode ==
    \A k \in 1..Len(source_code_files["A"]) :
        source_code_files["A"][k].loaded =>
            \A node \in FunctionNodesOf(source_code_files["A"][k].root) :
                FunctionDefinition(node, EmptyStr).valid =>
                    Cardinality(EntriesOf(source_code_files["A"][k], node)) = 1


\* the calls by name in the body of a function
DirectCallsOf(func) ==
    {n \in 1..Len(func.root.nodes) :
        /\ func.root.nodes[n].type = "call_expression"
        /\ func.root.nodes[n].ftype
               \in {"identifier", "qualified_identifier", "template_function"}}

\* what the lookup of the name called at node n of func returns, made
\* from func on the functions of p with the cache empty
LookupOfCall(p, func, n) ==
    FindFunctionNode(source_code_files, func.root.nodes[n].text,
                     AllRefs(source_code_files, p), FALSE,
                     func.namespace_or_class)

\* C26: when generate_report extracts the call sites of a function, the
\* target recorded for a call by name whose lookup (exact name, then the
\* name qualified by the scope of the caller, then the unqualified name)
\* succeeds is the qualified name of the function the lookup returned,
\* also when a free function and a method of the scope of the caller
\* have the called name.
C26_TargetIsLookedUpName ==
    [][(/\ last'.op = "generate_report" /\ last'.path = "computed"
        /\ FuncAt(<<"A", 1, 1>>).base_callsites = << >>)
          => \A n \in DirectCallsOf(FuncAt(<<"A", 1, 1>>)) :
                 LookupOfCall("A", FuncAt(<<"A", 1, 1>>), n) # None
                     => \E i \in 1..Len(FuncAt(<<"A", 1, 1>>).base_callsites') :
                            /\ FuncAt(<<"A", 1, 1>>).callsite_offsets'[i]
                                   = RecordedOffset(FuncAt(<<"A", 1, 1>>).root, n)
                            /\ FuncAt(<<"A", 1, 1>>).base_callsites'[i][1]
                                   = FuncAt(LookupOfCall("A",
                                         FuncAt(<<"A", 1, 1>>), n)).name]_vars


\* the name without its first k scope components
Stripped(name, k) ==
    IF k = 0 THEN name ELSE SubSeq(name, NthSep(name, k) + 1, Len(name))

\* the first function of p, in declaration order, whose name satisfies
\* the test; None when there is none
FirstNamed(p, Test(_)) ==
    LET refs == AllRefs(source_code_files, p)
        hits == {i \in 1..Len(refs) : Test(FuncAt(refs[i]).name)}
    IN  IF hits = {} THEN None ELSE refs[Min(hits)]

\* the function the lookup order of the specification gives for a target
\* name, a scope and the shallow flag on the functions of p
ByPriority(p, target, scope, shallow) ==
    LET Exact(name) == name = target
        InScope(name) == scope # EmptyStr /\ name = Scoped(scope, target)
        levels == {k \in 0..(IF shallow THEN 1 ELSE SplitLen(target) - 1) :
                      FirstNamed(p, LAMBDA name :
                          EndsWith(name, Stripped(target, k))) # None}
    IN  IF FirstNamed(p, Exact) # None THEN FirstNamed(p, Exact)
        ELSE IF FirstNamed(p, InScope) # None THEN FirstNamed(p, InScope)
        ELSE IF ~HasSep(target) THEN None
        ELSE IF SubSeq(target, 1, 4) = <<"s", "t", "d", SEP>> THEN None
        ELSE IF levels = {} THEN None
        ELSE FirstNamed(p, LAMBDA name :
                 EndsWith(name, Stripped(target, Min(levels))))

\* C27: a lookup returns, in this priority, the first function in
\* declaration order named as the target; else the first named
\* scope::target when a scope is given; else not-found when the target
\* has no `::` or starts with `std::`; else, for the suffixes of the
\* target got by stripping leading scope components, longest first and
\* one level at most when the shallow flag is set, the first function in
\* declaration order whose name ends with the suffix; a lookup repeated
\* with the same name, scope and flag, answered from the cache, returns
\* the same function.
C27_LookupPriority ==
    last.op = "get_function_node" =>
        last.result.node = ByPriority(last.p, last.function,
                                      last.result.namespace,
                                      last.result.one_layer_only)

\* x::Foo::bar was looked up with the shallow flag, with results of
\* earlier lookups in the cache, where bar is declared before Foo::bar:
\* Foo::bar was returned
C27_Witness ==
    /\ LookedUp(Scoped(NameX, NameFooBar)) /\ last.result.one_layer_only
    /\ last.cached_before > 0
    /\ FuncAt(<<"A", 1, 1>>).name = NameBar
    /\ Len(source_code_files["A"][1].func_defs) = 2
    /\ FuncAt(<<"A", 1, 2>>).name = NameFooBar
    /\ last.result.node = <<"A", 1, 2>>


\* the names printed on the lines of a rendered call tree
NamesPrinted(out) == {out[i][2] : i \in 1..Len(out)}

\* what get_reachable_functions returns for the entry point when called
\* now
ReachableNow(p, function) ==
    GetReachableFrom(ThisProject(p),
        [visited |-> {}, ctx |-> NewCtx, level |-> 0, nesting |-> 0],
        function).visited

\* C28: after the report of a project, the names printed on the lines of
\* extract_calltree for an entry point are the names
\* get_reachable_functions returns for the same entry point, also when a
\* callee is defined in more than one unit.
C28_CalltreeNamesAreReachable ==
    (last.op = "extract_calltree" /\ Reported(last.p)) =>
        NamesPrinted(last.result) = ReachableNow(last.p, last.function)

\* the distinct names of the project: those of its functions and those
\* its call sites record
ProjectNames(p) ==
    NamesOf(p) \cup
        UNION {SeqToSet(CalledNames(FuncAt(r))) : r \in RefsOf(p)}

FirstRecords(p) == internal_func_list[p]

\* C30: every call of generate_report on a project, whatever the caller
\* did to the report of an earlier call, leaves in the report the
\* per-function records the first call produced (none for a project
\* without functions), and the records kept from the first call never
\* change.
C30_ReportIdempotent ==
    [][\A p \in Projects :
          (last'.op = "generate_report" /\ last'.p = p) =>
              /\ report'[p] = FirstRecords(p)'
              /\ FirstRecords(p) # << >> =>
                     FirstRecords(p)' = FirstRecords(p)]_vars

====
